---- MODULE Spec2Model ----
(***************************************************************************)
(* Countdown timekeeper: the useCountdownTimekeeper hook, the localStorage *)
(* helpers it calls, and the Timekeeper component that wires its buttons   *)
(* and inputs.  Time is the wall clock in milliseconds.  A callback created*)
(* in a render closes over that render's values; such a closure is         *)
(* modelled by the record of values it reads (a "scope").                  *)
(***************************************************************************)
EXTENDS Integers, Sequences, FiniteSets, TLC

VARIABLES
  now,                      \* Date.now()
  config,                   \* useState<TimekeeperConfig>
  stateData,                \* useState<TimekeeperStateData>
  audioEnabled,             \* useState(false)
  sessions,                 \* useState<Session[]>
  intervalRef,              \* <<>> or <<[kind, duration, scope]>>
  persistIntervalRef,       \* <<>> or <<scope>>
  scheduled,                \* the intervals of the page that setInterval has
                            \* started and clearInterval has not cancelled
  startTimestampRef,
  pausedAtRef,
  accumulatedPausedMsRef,
  armingStartTimestampRef,
  warningTriggeredRef,
  sessionIdRef,
  lastCountdownRef,
  finishAlarmTriggeredRef,
  storedState,              \* localStorage['timekeeper_state']: <<>> or <<snapshot>>
  storedSessions,           \* localStorage['timekeeper_sessions']
  armingScope,              \* render scope closed over by the memoized startArmingTimer
  alerts,                   \* observation: Alert Sink calls of the current session, per kind
  session,                  \* observation: see NoSession
  numSessions,              \* observation: sessions started
  numRestarts,              \* observation: page reloads
  numAdvances,              \* observation: clock advances
  numEdits,                 \* observation: configuration edits
  snapshotFresh,            \* observation: the stored snapshot was written at this instant
  ignored,                  \* observation: the operations whose call returned early
  storeStatus               \* localStorage: "reliable", or whether its accesses in the
                            \* last step worked ("ok") or threw ("failed")

vars == <<now, config, stateData, audioEnabled, sessions, intervalRef,
          persistIntervalRef, scheduled, startTimestampRef, pausedAtRef,
          accumulatedPausedMsRef, armingStartTimestampRef, warningTriggeredRef,
          sessionIdRef, lastCountdownRef, finishAlarmTriggeredRef, storedState,
          storedSessions, armingScope, alerts, session, numSessions,
          numRestarts, numAdvances, numEdits, snapshotFresh, ignored,
          storeStatus>>

\* Everything a call that returns early leaves alone
progVars == <<now, config, stateData, audioEnabled, sessions, intervalRef,
              persistIntervalRef, scheduled, startTimestampRef, pausedAtRef,
              accumulatedPausedMsRef, armingStartTimestampRef,
              warningTriggeredRef, sessionIdRef, lastCountdownRef,
              finishAlarmTriggeredRef, storedState, storedSessions,
              armingScope, alerts, session, numSessions, numRestarts,
              numAdvances, numEdits, snapshotFresh>>

refVars == <<startTimestampRef, pausedAtRef, accumulatedPausedMsRef,
             armingStartTimestampRef, warningTriggeredRef, sessionIdRef,
             lastCountdownRef, finishAlarmTriggeredRef>>

timerVars == <<intervalRef, persistIntervalRef, scheduled>>

(***************************************************************************)
(* Program constants                                                       *)
(***************************************************************************)
ARMING_DURATION == 3000
MAX_SESSIONS == 100
HISTORY_SHOWN == 10
Null == -1
NoId == <<>>

DefaultConfig ==
  [activityType |-> "Loading", targetMinutes |-> 5, targetSeconds |-> 0,
   warningThresholdMinutes |-> 2]

InitialStateData ==
  [state |-> "idle", remainingMs |-> 0, armingCountdown |-> 0,
   isWarning |-> FALSE, mute |-> FALSE]

(***************************************************************************)
(* Bounds of the model                                                     *)
(***************************************************************************)
StartTime == 1000
MaxAdvances == 3
MaxEdits == 1
MaxSessions == 1
MaxRestarts == 1
MaxIgnored == 1
MaxAlerts == 2
MaxAppends == 102
\* Sessions and clock advances of a run that fills the history
HistorySessions == 2
HistoryAdvances == 5

\* Clock advances between two events: one arming window, or the time a
\* default session takes to reach its warning threshold.
Steps == {ARMING_DURATION, 180000}
\* A clock advance that ends inside the arming window.
ArmingSteps == {1000}
ActivityInputs == {"Repair"}
MinuteInputs == {1}
SecondInputs == {3}
ThresholdInputs == {0, 1}
RandomSuffixes == {"a"}
\* Limits passed to getLastSessions: none, one, the 10 the hook asks for,
\* and more than the store can hold.
ListLimits == {0, 1, HISTORY_SHOWN, MAX_SESSIONS + 1}

(***************************************************************************)
(* Helpers                                                                 *)
(***************************************************************************)
\* JavaScript truthiness of a number | null
Truthy(x) == x # Null /\ x # 0

\* Math.ceil(ms / 1000)
CeilSeconds(ms) == -((-ms) \div 1000)

Max(a, b) == IF a >= b THEN a ELSE b

Take(s, n) == SubSeq(s, 1, IF Len(s) <= n THEN Len(s) ELSE n)

TargetOf(c) == c.targetMinutes * 60 * 1000 + c.targetSeconds * 1000
WarningOf(c) == c.warningThresholdMinutes * 60 * 1000

targetDurationMs == TargetOf(config)
warningThresholdMs == WarningOf(config)

\* The values a callback created in a render with these states closes over.
ScopeOf(c, mute, audio) ==
  [activityType |-> c.activityType, targetDurationMs |-> TargetOf(c),
   warningThresholdMs |-> WarningOf(c), mute |-> mute, audioEnabled |-> audio]

CurScope == ScopeOf(config, stateData.mute, audioEnabled)

\* The first render: every state still has its initial value.
Scope0 == ScopeOf(DefaultConfig, FALSE, FALSE)

Audible(s) == ~s.mute /\ s.audioEnabled

NoAlerts == [arming |-> 0, start |-> 0, warning |-> 0, finish |-> 0, abort |-> 0]

Fire(a, kind, s) == IF Audible(s) THEN [a EXCEPT ![kind] = @ + 1] ELSE a

\* Observation of the current session: the configuration start() saw, the
\* instant start() began the arming window, whether a reload has restored
\* it, and the remaining time its tick would have computed at the instant of
\* the pause in progress.
NoSession ==
  [target |-> Null, activityType |-> "", armingStartedAt |-> Null,
   recovered |-> FALSE, remainingAtPause |-> Null]

(***************************************************************************)
(* storage: Session, PersistedState, saveSession, getLastSessions,         *)
(* saveState, clearState, generateId                                       *)
(***************************************************************************)
PersistedState(st, s, start, paused, acc, arming, warned) ==
  [state |-> st,
   activityType |-> s.activityType,
   targetDurationMs |-> s.targetDurationMs,
   startTimestamp |-> start,
   pausedAt |-> paused,
   accumulatedPausedMs |-> acc,
   armingStartTimestamp |-> arming,
   warningTriggered |-> warned,
   mute |-> s.mute]

\* The Session object finishSession and abortSession build.
\* SessionRecord whose effective duration does not subtract the pauses
SessionRecord_WithPauses(sid, s, start, acc, status) ==
  LET endTime == now
      effectiveDuration == endTime - start
      overdueMs == IF effectiveDuration > s.targetDurationMs
                   THEN effectiveDuration - s.targetDurationMs ELSE 0
  IN [id |-> sid,
      activityType |-> s.activityType,
      targetDurationMs |-> s.targetDurationMs,
      startAt |-> start,
      endAt |-> endTime,
      status |-> status,
      effectiveDurationMs |-> effectiveDuration,
      overdueMs |-> IF overdueMs > 0 THEN overdueMs ELSE Null]

SessionRecord(sid, s, start, acc, status) ==
  LET endTime == now
      effectiveDuration == endTime - start - acc
      overdueMs == IF effectiveDuration > s.targetDurationMs
                   THEN effectiveDuration - s.targetDurationMs ELSE 0
  IN [id |-> sid,
      activityType |-> s.activityType,
      targetDurationMs |-> s.targetDurationMs,
      startAt |-> start,
      endAt |-> endTime,
      status |-> status,
      effectiveDurationMs |-> effectiveDuration,
      overdueMs |-> IF overdueMs > 0 THEN overdueMs ELSE Null]

\* Every access to localStorage in a step throws, or none does.
Throws == storeStatus' = "failed"

\* The step is one in which localStorage is accessed
StoreOutcome ==
  storeStatus' \in (IF storeStatus = "reliable" THEN {"reliable"}
                     ELSE {"ok", "failed"})

\* The step is one in which localStorage is not accessed
NoStoreAccess ==
  storeStatus' = (IF storeStatus = "reliable" THEN "reliable" ELSE "ok")

\* Each helper catches what localStorage throws and logs it.
\* saveSession that puts the new record last: [...existing, session]
saveSession_Last(rec) ==
  storedSessions' = IF Throws THEN storedSessions
                    ELSE Take(storedSessions \o <<rec>>, MAX_SESSIONS)

saveSession(rec) ==
  storedSessions' = IF Throws THEN storedSessions
                    ELSE Take(<<rec>> \o storedSessions, MAX_SESSIONS)

getLastSessions(count) == IF Throws THEN <<>> ELSE Take(storedSessions', count)

clearSessions == storedSessions' = IF Throws THEN storedSessions ELSE <<>>

loadSessions == sessions' = getLastSessions(HISTORY_SHOWN)

saveState(snapshot) ==
  IF Throws
  THEN UNCHANGED <<storedState, snapshotFresh>>
  ELSE /\ storedState' = <<snapshot>>
       /\ snapshotFresh' = TRUE

clearState ==
  IF Throws
  THEN UNCHANGED <<storedState, snapshotFresh>>
  ELSE /\ storedState' = <<>>
       /\ snapshotFresh' = FALSE

\* generateId without the time stamp
generateId_WithoutTime(r) == <<0, r>>

generateId(r) == <<now, r>>

\* JSON.parse of the text in a slot: <<value>>, or <<>> when it throws.  The
\* text of a snapshot is modelled by the snapshot; any other text has no
\* "state" member here.
JSONparse(text) == IF "state" \in DOMAIN text THEN <<text>> ELSE <<>>

\* getState: <<snapshot>>, or <<>> for null (nothing stored, or the parse threw)
getState ==
  IF Throws \/ storedState = <<>> THEN <<>> ELSE JSONparse(storedState[1])

(***************************************************************************)
(* useCountdownTimekeeper: the callbacks.  Each takes the scope `s` of the *)
(* render that created the instance being called, and the values of the    *)
(* refs it reads where the caller has just assigned them.                  *)
(***************************************************************************)
persistState(currentState, s, start, paused, acc, arming, warned) ==
  saveState(PersistedState(currentState, s, start, paused, acc, arming, warned))

\* The interval that persists with the persistState of scope s
PersistInterval(s) == [kind |-> "persist", duration |-> 0, scope |-> s]

\* clearInterval(handle): the list without the interval the handle names
RECURSIVE clearInterval(_, _)
clearInterval(live, t) ==
  IF live = <<>> THEN <<>>
  ELSE IF Head(live) = t THEN Tail(live)
  ELSE <<Head(live)>> \o clearInterval(Tail(live), t)

\* The intervals left when both refs are cleared; live is the list of
\* scheduled intervals the caller finds (none in the mount effect).
Cleared(live) ==
  LET l1 == IF intervalRef # <<>>
            THEN clearInterval(live, intervalRef[1]) ELSE live
  IN IF persistIntervalRef # <<>>
     THEN clearInterval(l1, PersistInterval(persistIntervalRef[1])) ELSE l1

\* The scheduled intervals of one kind, any of which may fire next
Scheduled(kind) ==
  {scheduled[i] : i \in {j \in 1..Len(scheduled) : scheduled[j].kind = kind}}

\* clearTimer without its second half: the persistence interval is neither
\* cancelled nor forgotten
clearTimer_KeepsPersist(live) ==
  /\ intervalRef' = <<>>
  /\ persistIntervalRef' = persistIntervalRef
  /\ scheduled' = IF intervalRef # <<>>
                  THEN clearInterval(live, intervalRef[1]) ELSE live

clearTimer(live) ==
  /\ intervalRef' = <<>>
  /\ persistIntervalRef' = <<>>
  /\ scheduled' = Cleared(live)

\* "Reset refs" of finishSession, abortSession and resetSession.
\* The reset of refs without "startTimestampRef.current = null"
ResetRefs_KeepsStart ==
  /\ startTimestampRef' = startTimestampRef
  /\ pausedAtRef' = Null
  /\ accumulatedPausedMsRef' = 0
  /\ armingStartTimestampRef' = Null
  /\ warningTriggeredRef' = FALSE
  /\ finishAlarmTriggeredRef' = FALSE
  /\ sessionIdRef' = NoId

ResetRefs ==
  /\ startTimestampRef' = Null
  /\ pausedAtRef' = Null
  /\ accumulatedPausedMsRef' = 0
  /\ armingStartTimestampRef' = Null
  /\ warningTriggeredRef' = FALSE
  /\ finishAlarmTriggeredRef' = FALSE
  /\ sessionIdRef' = NoId

\* startArmingTimer(duration) of the instance created in scope s.
startArmingTimer(live, duration, s) ==
  /\ intervalRef' = <<[kind |-> "arming", duration |-> duration, scope |-> s]>>
  /\ persistIntervalRef' = <<>>
  /\ scheduled' = Cleared(live) \o intervalRef'
  /\ armingStartTimestampRef' = now
  /\ warningTriggeredRef' = FALSE
  /\ finishAlarmTriggeredRef' = FALSE
  /\ lastCountdownRef' = Null

\* startTimer(duration) of the instance created in scope s: both intervals
\* close over s, and the snapshot is written once at once.
startTimer(live, duration, s, start, paused, acc, arming, warned) ==
  /\ intervalRef' = <<[kind |-> "running", duration |-> duration, scope |-> s]>>
  /\ persistIntervalRef' = <<s>>
  /\ scheduled' = Cleared(live) \o intervalRef' \o <<PersistInterval(s)>>
  /\ persistState("running", s, start, paused, acc, arming, warned)

\* transitionToRunning(duration) of the instance created in scope s; sd is
\* the state data its updater receives, a0 the alerts so far, r the random
\* part of the id, arming and warned the refs it leaves alone.
transitionToRunning(live, duration, s, sd, a0, r, arming, warned) ==
  /\ stateData' = [sd EXCEPT !.state = "running", !.armingCountdown = 0]
  /\ startTimestampRef' = now
  /\ accumulatedPausedMsRef' = 0
  /\ pausedAtRef' = Null
  /\ sessionIdRef' = generateId(r)
  /\ alerts' = Fire(a0, "start", s)
  /\ startTimer(live, duration, s, now, Null, 0, arming, warned)

\* finishSession that leaves remainingMs as the last tick published it
finishSession_KeepsRemaining(live, s, sd, start, acc, sid) ==
  /\ clearTimer(live)
  /\ IF Truthy(start) /\ sid # NoId
     THEN /\ saveSession(SessionRecord(sid, s, start, acc, "finished"))
          /\ loadSessions
     ELSE UNCHANGED <<storedSessions, sessions>>
  /\ stateData' = [sd EXCEPT !.state = "finished", !.isWarning = FALSE]
  /\ alerts' = Fire(alerts, "finish", s)
  /\ ResetRefs
  /\ clearState

\* finishSession of the instance created in scope s; start, acc and sid are
\* the refs as it reads them, sd the state data its updater receives.
finishSession(live, s, sd, start, acc, sid) ==
  /\ clearTimer(live)
  /\ IF Truthy(start) /\ sid # NoId
     THEN /\ saveSession(SessionRecord(sid, s, start, acc, "finished"))
          /\ loadSessions
     ELSE UNCHANGED <<storedSessions, sessions>>
  /\ stateData' = [sd EXCEPT !.state = "finished", !.remainingMs = 0,
                               !.isWarning = FALSE]
  /\ alerts' = Fire(alerts, "finish", s)
  /\ ResetRefs
  /\ clearState

(***************************************************************************)
(* Initial state: first visit, nothing in localStorage                     *)
(***************************************************************************)
\* The hook's memory at its first render
FirstRender ==
  /\ now = StartTime
  /\ config = DefaultConfig
  /\ stateData = InitialStateData
  /\ audioEnabled = FALSE
  /\ sessions = <<>>
  /\ intervalRef = <<>>
  /\ persistIntervalRef = <<>>
  /\ scheduled = <<>>
  /\ startTimestampRef = Null
  /\ pausedAtRef = Null
  /\ accumulatedPausedMsRef = 0
  /\ armingStartTimestampRef = Null
  /\ warningTriggeredRef = FALSE
  /\ sessionIdRef = NoId
  /\ lastCountdownRef = Null
  /\ finishAlarmTriggeredRef = FALSE
  /\ armingScope = Scope0
  /\ alerts = NoAlerts
  /\ session = NoSession
  /\ numSessions = 0
  /\ numRestarts = 0
  /\ numAdvances = 0
  /\ numEdits = 0
  /\ snapshotFresh = FALSE
  /\ ignored = <<>>

Init ==
  /\ storeStatus = "reliable"
  /\ FirstRender
  /\ storedState = <<>>
  /\ storedSessions = <<>>

(***************************************************************************)
(* The clock                                                               *)
(***************************************************************************)
\* The clock moves on by one of the steps, at most `limit` times
AdvanceWithin(limit) ==
  \E d \in Steps \cup (IF stateData.state = "arming" THEN ArmingSteps ELSE {}) :
    /\ NoStoreAccess
    /\ numAdvances < limit
    /\ numAdvances' = numAdvances + 1
    /\ now' = now + d
    /\ snapshotFresh' = FALSE
    /\ UNCHANGED <<ignored, config, stateData, audioEnabled, sessions, timerVars, refVars,
                   storedState, storedSessions, armingScope, alerts, session,
                   numSessions, numRestarts, numEdits>>

Advance == AdvanceWithin(MaxAdvances)

(***************************************************************************)
(* The operations the hook returns.  A call that returns early changes     *)
(* nothing; it is recorded in `ignored`.                                   *)
(***************************************************************************)
\* "if (...) return;"
Return(op) ==
  /\ NoStoreAccess
  /\ Len(ignored) < MaxIgnored
  /\ ignored' = Append(ignored, op)
  /\ UNCHANGED progVars

\* setConfig, the state setter the hook returns as it is
setConfig(c) ==
  /\ NoStoreAccess
  /\ numEdits < MaxEdits
  /\ numEdits' = numEdits + 1
  /\ config' = c
  /\ UNCHANGED <<ignored, now, stateData, audioEnabled, sessions, timerVars, refVars,
                 storedState, storedSessions, armingScope, alerts, session,
                 numSessions, numRestarts, numAdvances, snapshotFresh>>

\* startSession, for at most `limit` sessions
startSessionWithin(limit) ==
  IF stateData.state # "idle"
  THEN Return("start")
  ELSE /\ StoreOutcome
       /\ numSessions < limit
       /\ stateData' = [stateData EXCEPT !.state = "arming"]
       /\ startArmingTimer(scheduled, targetDurationMs, armingScope)
       /\ persistState("arming", CurScope, startTimestampRef, pausedAtRef,
                       accumulatedPausedMsRef, now, FALSE)
       /\ alerts' = NoAlerts
       /\ session' = [NoSession EXCEPT !.target = targetDurationMs,
                                       !.activityType = config.activityType,
                                       !.armingStartedAt = now]
       /\ numSessions' = numSessions + 1
       /\ UNCHANGED <<ignored, now, config, audioEnabled, sessions,
                      startTimestampRef, pausedAtRef, accumulatedPausedMsRef,
                      sessionIdRef, storedSessions, armingScope, numRestarts,
                      numAdvances, numEdits>>

startSession == startSessionWithin(MaxSessions)

\* The 100 ms interval startArmingTimer installs
ArmingTick ==
  \E t \in Scheduled("arming") :
  /\ LET s == t.scope
         elapsed == now - (IF Truthy(armingStartTimestampRef)
                           THEN armingStartTimestampRef ELSE now)
         remaining == ARMING_DURATION - elapsed
         countdown == CeilSeconds(remaining)
         beep == countdown > 0 /\ countdown # lastCountdownRef /\ Audible(s)
         a1 == IF beep THEN [alerts EXCEPT !.arming = @ + 1] ELSE alerts
     IN /\ IF remaining <= 0 THEN StoreOutcome ELSE NoStoreAccess
        /\ lastCountdownRef' = IF beep THEN countdown ELSE lastCountdownRef
        /\ IF remaining <= 0
           THEN /\ \E r \in RandomSuffixes :
                     transitionToRunning(scheduled, t.duration, s, stateData, a1, r,
                                         armingStartTimestampRef,
                                         warningTriggeredRef)
                /\ UNCHANGED <<armingStartTimestampRef, warningTriggeredRef,
                               finishAlarmTriggeredRef>>
           ELSE /\ stateData' = [stateData EXCEPT
                                   !.armingCountdown = Max(0, countdown)]
                /\ alerts' = a1
                /\ UNCHANGED <<timerVars, startTimestampRef, pausedAtRef,
                               accumulatedPausedMsRef, armingStartTimestampRef,
                               warningTriggeredRef, sessionIdRef,
                               finishAlarmTriggeredRef, storedState,
                               snapshotFresh>>
  /\ UNCHANGED <<ignored, now, config, audioEnabled, sessions, storedSessions,
                 armingScope, session, numSessions, numRestarts, numAdvances, numEdits>>

\* The 16 ms interval startTimer installs
RunningTick ==
  \E t \in Scheduled("running") :
  /\ NoStoreAccess
  /\ LET s == t.scope
         elapsed == now - startTimestampRef - accumulatedPausedMsRef
         remaining == t.duration - elapsed
         warn == /\ ~warningTriggeredRef
                 /\ remaining > 0
                 /\ remaining <= s.warningThresholdMs
         alarm == ~finishAlarmTriggeredRef /\ remaining <= 0
         a1 == IF warn THEN Fire(alerts, "warning", s) ELSE alerts
         a2 == IF alarm THEN Fire(a1, "finish", s) ELSE a1
     IN IF ~Truthy(startTimestampRef)
        THEN UNCHANGED <<stateData, warningTriggeredRef,
                         finishAlarmTriggeredRef, alerts>>
        ELSE /\ warningTriggeredRef' = (warningTriggeredRef \/ warn)
             /\ finishAlarmTriggeredRef' = (finishAlarmTriggeredRef \/ alarm)
             /\ stateData' = [stateData EXCEPT
                                !.isWarning = IF warn THEN TRUE ELSE @,
                                !.remainingMs = remaining]
             /\ alerts' = a2
  /\ UNCHANGED <<ignored, now, config, audioEnabled, sessions, timerVars,
                 startTimestampRef, pausedAtRef, accumulatedPausedMsRef,
                 armingStartTimestampRef, sessionIdRef, lastCountdownRef,
                 storedState, storedSessions, armingScope, session,
                 numSessions, numRestarts, numAdvances, numEdits, snapshotFresh>>

\* The 250 ms interval startTimer installs
PersistTick ==
  \E t \in Scheduled("persist") :
  /\ StoreOutcome
  /\ persistState("running", t.scope, startTimestampRef,
                  pausedAtRef, accumulatedPausedMsRef, armingStartTimestampRef,
                  warningTriggeredRef)
  /\ UNCHANGED <<ignored, now, config, stateData, audioEnabled, sessions, timerVars,
                 refVars, storedSessions, armingScope, alerts, session,
                 numSessions, numRestarts, numAdvances, numEdits>>

\* pauseSession without its "if (stateData.state !== 'running') return;"
pauseSession_Unguarded ==
  /\ StoreOutcome
  /\ clearTimer(scheduled)
  /\ pausedAtRef' = now
  /\ stateData' = [stateData EXCEPT !.state = "paused"]
  /\ persistState("paused", CurScope, startTimestampRef, now,
                  accumulatedPausedMsRef, armingStartTimestampRef,
                  warningTriggeredRef)
  /\ UNCHANGED <<ignored, now, config, audioEnabled, sessions,
                 startTimestampRef, accumulatedPausedMsRef,
                 armingStartTimestampRef, warningTriggeredRef, sessionIdRef,
                 lastCountdownRef, finishAlarmTriggeredRef, storedSessions,
                 armingScope, alerts, session, numSessions, numRestarts,
                 numAdvances, numEdits>>

pauseSession ==
  IF stateData.state # "running"
  THEN Return("pause")
  ELSE /\ StoreOutcome
       /\ clearTimer(scheduled)
       /\ pausedAtRef' = now
       /\ stateData' = [stateData EXCEPT !.state = "paused"]
       /\ persistState("paused", CurScope, startTimestampRef, now,
                       accumulatedPausedMsRef, armingStartTimestampRef,
                       warningTriggeredRef)
       /\ session' = [session EXCEPT !.remainingAtPause =
                        IF intervalRef # <<>> /\ Truthy(startTimestampRef)
                        THEN intervalRef[1].duration
                             - (now - startTimestampRef
                                - accumulatedPausedMsRef)
                        ELSE Null]
       /\ UNCHANGED <<ignored, now, config, audioEnabled, sessions,
                      startTimestampRef, accumulatedPausedMsRef,
                      armingStartTimestampRef, warningTriggeredRef,
                      sessionIdRef, lastCountdownRef, finishAlarmTriggeredRef,
                      storedSessions, armingScope, alerts, numSessions,
                      numRestarts, numAdvances, numEdits>>

\* resumeSession with "accumulatedPausedMsRef.current = pausedDuration"
\* where the source has "+="
resumeSession_LastPauseOnly ==
  IF stateData.state # "paused" \/ ~Truthy(startTimestampRef)
       \/ ~Truthy(pausedAtRef)
  THEN Return("resume")
  ELSE /\ StoreOutcome
       /\ LET acc == now - pausedAtRef
              nowElapsed == now - startTimestampRef - acc
              remaining == targetDurationMs - nowElapsed
              sd == [stateData EXCEPT !.state = "running"]
          IN IF remaining <= 0
             THEN finishSession(scheduled, CurScope, sd, startTimestampRef, acc,
                                sessionIdRef)
             ELSE /\ accumulatedPausedMsRef' = acc
                  /\ pausedAtRef' = Null
                  /\ stateData' = sd
                  /\ startTimer(scheduled, targetDurationMs, CurScope, startTimestampRef,
                                Null, acc, armingStartTimestampRef,
                                warningTriggeredRef)
                  /\ UNCHANGED <<sessions, startTimestampRef,
                                 armingStartTimestampRef, warningTriggeredRef,
                                 sessionIdRef, finishAlarmTriggeredRef,
                                 storedSessions, alerts>>
       /\ session' = [session EXCEPT !.remainingAtPause = Null]
       /\ UNCHANGED <<ignored, now, config, audioEnabled, lastCountdownRef, armingScope,
                      numSessions, numRestarts, numAdvances, numEdits>>

resumeSession ==
  IF stateData.state # "paused" \/ ~Truthy(startTimestampRef)
       \/ ~Truthy(pausedAtRef)
  THEN Return("resume")
  ELSE /\ StoreOutcome
       /\ LET acc == accumulatedPausedMsRef + (now - pausedAtRef)
              nowElapsed == now - startTimestampRef - acc
              remaining == targetDurationMs - nowElapsed
              sd == [stateData EXCEPT !.state = "running"]
          IN IF remaining <= 0
             THEN finishSession(scheduled, CurScope, sd, startTimestampRef, acc,
                                sessionIdRef)
             ELSE /\ accumulatedPausedMsRef' = acc
                  /\ pausedAtRef' = Null
                  /\ stateData' = sd
                  /\ startTimer(scheduled, targetDurationMs, CurScope, startTimestampRef,
                                Null, acc, armingStartTimestampRef,
                                warningTriggeredRef)
                  /\ UNCHANGED <<sessions, startTimestampRef,
                                 armingStartTimestampRef, warningTriggeredRef,
                                 sessionIdRef, finishAlarmTriggeredRef,
                                 storedSessions, alerts>>
       /\ session' = [session EXCEPT !.remainingAtPause = Null]
       /\ UNCHANGED <<ignored, now, config, audioEnabled, lastCountdownRef, armingScope,
                      numSessions, numRestarts, numAdvances, numEdits>>

abortSession ==
  IF stateData.state = "idle" \/ stateData.state = "finished"
  THEN Return("abort")
  ELSE /\ StoreOutcome
       /\ alerts.abort < MaxAlerts
       /\ clearTimer(scheduled)
       /\ IF Truthy(startTimestampRef) /\ sessionIdRef # NoId
          THEN /\ saveSession(SessionRecord(sessionIdRef, CurScope,
                                            startTimestampRef,
                                            accumulatedPausedMsRef, "aborted"))
               /\ loadSessions
          ELSE UNCHANGED <<storedSessions, sessions>>
       /\ stateData' = [stateData EXCEPT !.state = "aborted", !.isWarning = FALSE,
                                         !.armingCountdown = 0]
       /\ alerts' = Fire(alerts, "abort", CurScope)
       /\ ResetRefs
       /\ clearState
       /\ UNCHANGED <<ignored, now, config, audioEnabled, lastCountdownRef, armingScope,
                      session, numSessions, numRestarts, numAdvances, numEdits>>

\* resetSession that restores the whole initial state data, mute included
resetSession_ClearsMute ==
  /\ StoreOutcome
  /\ clearTimer(scheduled)
  /\ stateData' = InitialStateData
  /\ ResetRefs
  /\ clearState
  /\ alerts' = NoAlerts
  /\ session' = NoSession
  /\ UNCHANGED <<ignored, now, config, audioEnabled, sessions, lastCountdownRef,
                 storedSessions, armingScope, numSessions, numRestarts, numAdvances, numEdits>>

resetSession ==
  /\ StoreOutcome
  /\ clearTimer(scheduled)
  /\ stateData' = [InitialStateData EXCEPT !.mute = stateData.mute]
  /\ ResetRefs
  /\ clearState
  /\ alerts' = NoAlerts
  /\ session' = NoSession
  /\ UNCHANGED <<ignored, now, config, audioEnabled, sessions, lastCountdownRef,
                 storedSessions, armingScope, numSessions, numRestarts, numAdvances, numEdits>>

\* The updater persists with the persistState of the render that is current,
\* then flips mute; the next render re-creates startArmingTimer.
\* toggleMute with a persistState that lets the exception out of the updater
toggleMute_Uncaught ==
  /\ StoreOutcome
  /\ persistState(stateData.state, CurScope, startTimestampRef, pausedAtRef,
                  accumulatedPausedMsRef, armingStartTimestampRef,
                  warningTriggeredRef)
  /\ stateData' = IF Throws THEN stateData
                  ELSE [stateData EXCEPT !.mute = ~stateData.mute]
  /\ armingScope' = ScopeOf(config, stateData'.mute, audioEnabled)
  /\ UNCHANGED <<ignored, now, config, audioEnabled, sessions, timerVars, refVars,
                 storedSessions, alerts, session, numSessions, numRestarts, numAdvances, numEdits>>

toggleMute ==
  /\ StoreOutcome
  /\ persistState(stateData.state, CurScope, startTimestampRef, pausedAtRef,
                  accumulatedPausedMsRef, armingStartTimestampRef,
                  warningTriggeredRef)
  /\ stateData' = [stateData EXCEPT !.mute = ~stateData.mute]
  /\ armingScope' = ScopeOf(config, ~stateData.mute, audioEnabled)
  /\ UNCHANGED <<ignored, now, config, audioEnabled, sessions, timerVars, refVars,
                 storedSessions, alerts, session, numSessions, numRestarts, numAdvances, numEdits>>

enableAudio ==
  /\ NoStoreAccess
  /\ audioEnabled' = TRUE
  /\ armingScope' = ScopeOf(config, stateData.mute, TRUE)
  /\ UNCHANGED <<ignored, now, config, stateData, sessions, timerVars, refVars,
                 storedState, storedSessions, alerts, session, numSessions,
                 numRestarts, numAdvances, numEdits, snapshotFresh>>

clearHistory ==
  /\ StoreOutcome
  /\ clearSessions
  /\ loadSessions
  /\ UNCHANGED <<ignored, now, config, stateData, audioEnabled, timerVars, refVars,
                 storedState, armingScope, alerts, session, numSessions,
                 numRestarts, numAdvances, numEdits, snapshotFresh>>

(***************************************************************************)
(* The Timekeeper component: each control is rendered, or enabled, only in *)
(* the states named.                                                       *)
(***************************************************************************)
\* The configuration inputs, disabled unless idle
SetConfig(c) ==
  /\ stateData.state = "idle"
  /\ setConfig(c)

SetActivityType ==
  \E v \in ActivityInputs :
    /\ SetConfig([config EXCEPT !.activityType = v])

\* onChange of the minutes input: 0..999 accepted
SetTargetMinutes ==
  \E v \in MinuteInputs :
    /\ v >= 0 /\ v <= 999
    /\ SetConfig([config EXCEPT !.targetMinutes = v])

\* onChange of the seconds input: 0..59 accepted
SetTargetSeconds ==
  \E v \in SecondInputs :
    /\ v >= 0 /\ v <= 59
    /\ SetConfig([config EXCEPT !.targetSeconds = v])

\* onChange of the threshold input: parseInt(value) || 2
SetWarningThreshold ==
  \E v \in ThresholdInputs :
    /\ SetConfig([config EXCEPT !.warningThresholdMinutes = IF v # 0 THEN v ELSE 2])

\* "Start Session", rendered in idle
StartSession ==
  /\ stateData.state = "idle"
  /\ startSession

\* "Pause", rendered in running
PauseSession ==
  /\ stateData.state = "running"
  /\ pauseSession

\* "Resume", rendered in paused
ResumeSession ==
  /\ stateData.state = "paused"
  /\ resumeSession

\* "Stop", rendered in arming, running and paused
AbortSession ==
  /\ stateData.state \in {"arming", "running", "paused"}
  /\ abortSession

\* "Reset", rendered in finished and aborted
ResetSession ==
  /\ stateData.state \in {"finished", "aborted"}
  /\ resetSession

\* The mute button, rendered once audio is enabled
ToggleMute ==
  /\ audioEnabled
  /\ toggleMute

\* "Enable Sound", rendered while audio is not enabled
EnableAudio ==
  /\ ~audioEnabled
  /\ enableAudio

\* "Clear", rendered while the history shown is not empty
ClearHistory ==
  /\ Len(sessions) > 0
  /\ clearHistory

(***************************************************************************)
(* Page reload: memory is lost, localStorage is kept, and the mount effect *)
(* runs with the callbacks of the first render (scope Scope0).             *)
(***************************************************************************)
\* The refs as the mount effect assigns them from the snapshot; the other
\* refs are those of a fresh page.
\* restoreRefs without its "pausedAtRef.current = savedState.pausedAt"
restoreRefs_WithoutPausedAt(savedState) ==
  /\ startTimestampRef' = savedState.startTimestamp
  /\ pausedAtRef' = Null
  /\ accumulatedPausedMsRef' = savedState.accumulatedPausedMs
  /\ armingStartTimestampRef' = savedState.armingStartTimestamp
  /\ warningTriggeredRef' = savedState.warningTriggered
  /\ sessionIdRef' = NoId
  /\ finishAlarmTriggeredRef' = FALSE

restoreRefs(savedState) ==
  /\ startTimestampRef' = savedState.startTimestamp
  /\ pausedAtRef' = savedState.pausedAt
  /\ accumulatedPausedMsRef' = savedState.accumulatedPausedMs
  /\ armingStartTimestampRef' = savedState.armingStartTimestamp
  /\ warningTriggeredRef' = savedState.warningTriggered
  /\ sessionIdRef' = NoId
  /\ finishAlarmTriggeredRef' = FALSE

\* The mount effect's branch for a saved non-idle snapshot.
RestoreState(savedState) ==
  LET sd == [InitialStateData EXCEPT !.state = savedState.state,
                                     !.mute = savedState.mute]
      start == savedState.startTimestamp
      paused == savedState.pausedAt
      acc == savedState.accumulatedPausedMs
      arming == savedState.armingStartTimestamp
      warned == savedState.warningTriggered
  IN /\ config' = [DefaultConfig EXCEPT !.activityType =
                      IF savedState.activityType # ""
                      THEN savedState.activityType ELSE @]
     /\ armingScope' = IF savedState.mute
                       THEN ScopeOf(config', TRUE, FALSE) ELSE Scope0
     /\ CASE savedState.state = "running" /\ Truthy(start) ->
               LET elapsed == now - start - acc
                   remaining == savedState.targetDurationMs - elapsed
               IN IF remaining <= 0
                  THEN finishSession(<<>>, Scope0, sd, start, acc, NoId)
                  ELSE /\ stateData' = sd
                       /\ restoreRefs(savedState)
                       /\ startTimer(<<>>, savedState.targetDurationMs, Scope0,
                                     start, paused, acc, arming, warned)
                       /\ UNCHANGED <<alerts, storedSessions>>
                       /\ loadSessions
          [] savedState.state = "arming" /\ Truthy(arming) ->
               LET elapsed == now - arming
                   remaining == ARMING_DURATION - elapsed
               IN /\ IF remaining <= 0
                     THEN /\ \E r \in RandomSuffixes :
                               transitionToRunning(<<>>, savedState.targetDurationMs,
                                                   Scope0, sd, alerts, r,
                                                   arming, warned)
                          /\ armingStartTimestampRef' = arming
                          /\ warningTriggeredRef' = warned
                          /\ finishAlarmTriggeredRef' = FALSE
                     ELSE /\ stateData' = sd
                          /\ startTimestampRef' = start
                          /\ pausedAtRef' = paused
                          /\ accumulatedPausedMsRef' = acc
                          /\ sessionIdRef' = NoId
                          /\ startArmingTimer(<<>>, savedState.targetDurationMs,
                                              Scope0)
                          /\ UNCHANGED <<alerts, storedState, snapshotFresh>>
                  /\ UNCHANGED storedSessions
                  /\ loadSessions
          [] OTHER ->
               /\ stateData' = sd
               /\ restoreRefs(savedState)
               /\ clearTimer(<<>>)
               /\ UNCHANGED <<alerts, storedState, storedSessions,
                              snapshotFresh>>
               /\ loadSessions

Restart ==
  /\ StoreOutcome
  /\ numRestarts < MaxRestarts
  /\ numRestarts' = numRestarts + 1
  /\ audioEnabled' = FALSE
  /\ lastCountdownRef' = Null
  /\ IF getState # <<>> /\ getState[1].state # "idle"
     THEN /\ RestoreState(getState[1])
          /\ session' = [session EXCEPT !.recovered = TRUE]
     ELSE /\ config' = DefaultConfig
          /\ stateData' = InitialStateData
          /\ armingScope' = Scope0
          /\ clearTimer(<<>>)
          /\ ResetRefs
          /\ alerts' = NoAlerts
          /\ session' = NoSession
          /\ UNCHANGED <<storedState, storedSessions, snapshotFresh>>
          /\ loadSessions
  /\ UNCHANGED <<ignored, now, numSessions, numAdvances, numEdits>>

Next ==
  \/ Advance
  \/ SetActivityType
  \/ SetTargetMinutes
  \/ SetTargetSeconds
  \/ SetWarningThreshold
  \/ StartSession
  \/ ArmingTick
  \/ RunningTick
  \/ PersistTick
  \/ PauseSession
  \/ ResumeSession
  \/ AbortSession
  \/ ResetSession
  \/ ToggleMute
  \/ EnableAudio
  \/ ClearHistory
  \/ Restart

Spec == Init /\ [][Next]_vars

(***************************************************************************)
(* The hook on its own: a caller may invoke its control operations in any  *)
(* state, not only where the component renders their buttons.              *)
(***************************************************************************)
Configure ==
  \E v \in MinuteInputs :
    /\ setConfig([config EXCEPT !.targetMinutes = v])

NextHook ==
  \/ Advance
  \/ Configure
  \/ startSession
  \/ ArmingTick
  \/ RunningTick
  \/ PersistTick
  \/ pauseSession
  \/ resumeSession
  \/ abortSession
  \/ resetSession
  \/ toggleMute
  \/ enableAudio
  \/ clearHistory

SpecHook == Init /\ [][NextHook]_vars

(***************************************************************************)
(* A page that is loaded with a snapshot in localStorage that this version *)
(* of the program did not write.                                           *)
(***************************************************************************)
\* Text that is not JSON
Unparseable == [text |-> "{"]

MalformedSnapshots ==
  { Unparseable,
    PersistedState("unknown", Scope0, Null, Null, 0, Null, FALSE),
    PersistedState("running", Scope0, Null, Null, 0, Null, FALSE),
    PersistedState("arming", Scope0, Null, Null, 0, Null, FALSE),
    PersistedState("paused", Scope0, Null, Null, 0, Null, FALSE) }

InitMalformed ==
  /\ storeStatus = "reliable"
  /\ FirstRender
  /\ storedState \in { <<m>> : m \in MalformedSnapshots }
  /\ storedSessions = <<>>

NextMalformed ==
  \/ Restart
  \/ Advance
  \/ StartSession
  \/ ArmingTick
  \/ RunningTick
  \/ PersistTick
  \/ PauseSession
  \/ ResumeSession
  \/ AbortSession
  \/ ResetSession

SpecMalformed == InitMalformed /\ [][NextMalformed]_vars

(***************************************************************************)
(* A page whose localStorage may throw on any access (storage disabled or  *)
(* full).                                                                  *)
(***************************************************************************)
InitFailing ==
  /\ storeStatus = "ok"
  /\ FirstRender
  /\ storedState = <<>>
  /\ storedSessions = <<>>

NextFailing ==
  \/ Advance
  \/ StartSession
  \/ ArmingTick
  \/ RunningTick
  \/ PersistTick
  \/ PauseSession
  \/ ResumeSession
  \/ AbortSession
  \/ ResetSession
  \/ ToggleMute
  \/ EnableAudio

SpecFailing == InitFailing /\ [][NextFailing]_vars

(***************************************************************************)
(* Properties                                                              *)
(***************************************************************************)
(***************************************************************************)
(* The hook driven by a caller that, like the component, edits the         *)
(* configuration only while idle, but passes the warning threshold as it   *)
(* is given (the component's input turns 0 into 2)                         *)
(***************************************************************************)
ConfigureThreshold ==
  \E v \in ThresholdInputs :
    /\ SetConfig([config EXCEPT !.warningThresholdMinutes = v])

NextThreshold ==
  \/ Advance
  \/ ConfigureThreshold
  \/ startSession
  \/ ArmingTick
  \/ RunningTick
  \/ PersistTick
  \/ pauseSession
  \/ resumeSession
  \/ toggleMute
  \/ enableAudio

SpecThreshold == Init /\ [][NextThreshold]_vars

(***************************************************************************)
(* The session store on its own: records are appended as finishSession and*)
(* abortSession do (saveSession, then loadSessions), listed with any limit *)
(* and cleared, often enough to pass MAX_SESSIONS.  Each record is made a  *)
(* millisecond after the one before, so its id is new.                     *)
(***************************************************************************)
\* The record a session that ends now would save
NewRecord ==
  SessionRecord(generateId("a"), Scope0, now, 0,
                IF numSessions % 2 = 0 THEN "finished" ELSE "aborted")

\* saveSession(session); loadSessions()
AppendRecord ==
  /\ StoreOutcome
  /\ numSessions < MaxAppends
  /\ numSessions' = numSessions + 1
  /\ now' = now + 1
  /\ saveSession(NewRecord)
  /\ loadSessions
  /\ UNCHANGED <<ignored, config, stateData, audioEnabled, timerVars, refVars,
                 storedState, armingScope, alerts, session, numRestarts,
                 numAdvances, numEdits, snapshotFresh>>

\* getLastSessions(limit)
ListWith(limit) ==
  /\ StoreOutcome
  /\ UNCHANGED storedSessions
  /\ sessions' = getLastSessions(limit)
  /\ UNCHANGED <<ignored, now, config, stateData, audioEnabled, timerVars,
                 refVars, storedState, armingScope, alerts, session,
                 numSessions, numRestarts, numAdvances, numEdits,
                 snapshotFresh>>

ListRecords == \E limit \in ListLimits : ListWith(limit)

NextStore ==
  \/ AppendRecord
  \/ ListRecords
  \/ clearHistory

SpecStore == Init /\ [][NextStore]_vars

(***************************************************************************)
(* Several sessions one after the other on one page, with the default      *)
(* configuration: the hook's session operations in any state, the ticks,   *)
(* the clock and the page reload.                                          *)
(***************************************************************************)
AdvanceHistory == AdvanceWithin(HistoryAdvances)

startSessionHistory == startSessionWithin(HistorySessions)

NextHistory ==
  \/ AdvanceHistory
  \/ startSessionHistory
  \/ ArmingTick
  \/ RunningTick
  \/ PersistTick
  \/ pauseSession
  \/ resumeSession
  \/ abortSession
  \/ resetSession
  \/ Restart

SpecHistory == Init /\ [][NextHistory]_vars

Terminal == {"finished", "aborted"}

IsRestart == numRestarts' = numRestarts + 1

\* A step that commits a Session Record
Commits == Len(storedSessions') = Len(storedSessions) + 1

\* The remaining time a running tick computes in the state reached
RemainingNext ==
  intervalRef'[1].duration
    - (now' - startTimestampRef' - accumulatedPausedMsRef')

\* The remaining time of the session as configured at start()
RemainingConfigured ==
  session.target - (now - startTimestampRef - accumulatedPausedMsRef)

\* The snapshot persistState would write in the state reached
SnapshotNext ==
  PersistedState(stateData'.state,
                 ScopeOf(config', stateData'.mute, audioEnabled'),
                 startTimestampRef', pausedAtRef', accumulatedPausedMsRef',
                 armingStartTimestampRef', warningTriggeredRef')

\* C1: while Running, a periodic tick that observes remaining <= 0 moves the
\* controller to Finished on that tick, with a finished Session Record
\* committed and the snapshot cleared.
C1_TickFinishesAtDeadline ==
  [][ ( /\ RunningTick
        /\ stateData.state = "running"
        /\ Truthy(startTimestampRef)
        /\ stateData'.remainingMs <= 0 )
      => ( /\ stateData'.state = "finished"
           /\ Commits
           /\ storedSessions'[1].status = "finished"
           /\ storedState' = <<>> ) ]_vars

\* C2: within one session the finish alert reaches the Alert Sink at most
\* once, whatever the ticks, pauses, resumes and reloads.
C2_FinishAlertAtMostOnce == alerts.finish <= 1

\* C3: within one session the warning alert reaches the Alert Sink at most
\* once, also after a pause/resume or a reload.
C3_WarningAlertAtMostOnce == alerts.warning <= 1

\* C4: a session that reaches Finished or Aborted gets exactly one Session
\* Record, appended at the transition into the terminal state (stated for
\* the sessions that had entered Running).
C4_OneRecordPerSession ==
  [][ ( /\ stateData.state \in {"running", "paused"}
        /\ stateData'.state \in Terminal )
      => ( /\ Commits
           /\ storedSessions'[1].status = stateData'.state ) ]_vars

\* C5: a session restored by a reload while Running or Paused is not lost:
\* when it reaches Finished or Aborted, at initialization or later, a
\* Session Record is committed for it.
C5_RecoveredSessionRecorded ==
  [][ ( /\ stateData.state \in {"running", "paused"}
        /\ stateData'.state \in Terminal
        /\ (session.recovered \/ IsRestart) )
      => Commits ]_vars

\* C6: the record of an abort() called while Paused has an
\* effectiveDurationMs that excludes the pause in progress: it equals
\* pausedAt - startedAt - (pause time accumulated by earlier resumes).
C6_AbortWhilePausedExcludesPause ==
  [][ ( /\ stateData.state = "paused"
        /\ stateData'.state = "aborted"
        /\ Commits )
      => storedSessions'[1].effectiveDurationMs
           = pausedAtRef - startTimestampRef - accumulatedPausedMsRef ]_vars

\* C7: the remaining time right after resume() equals the remaining time at
\* the instant of pause(), for every pause length.
C7_PauseResumePreservesRemaining ==
  [][ ( /\ ResumeSession
        /\ stateData'.state = "running" )
      => RemainingNext = session.remainingAtPause ]_vars

\* C8: after a reload during Running with the deadline not passed, the
\* controller is Running and its remaining time is the session's configured
\* target - (now - startedAt - accumulatedPausedDuration).
C8_ReloadKeepsRemaining ==
  [][ ( /\ IsRestart
        /\ stateData.state = "running"
        /\ RemainingConfigured > 0 )
      => ( /\ stateData'.state = "running"
           /\ intervalRef' # <<>>
           /\ intervalRef'[1].kind = "running"
           /\ RemainingNext = RemainingConfigured ) ]_vars

\* C9: after initialization from a non-idle snapshot the configuration
\* (activity label, target duration) and the timestamp and flag fields equal
\* the snapshot's, and a later resume() computes with the snapshot's target.
C9_RestoreVerbatim ==
  [][ /\ ( /\ IsRestart
           /\ storedState # <<>>
           /\ storedState[1].state # "idle"
           /\ stateData'.state = storedState[1].state )
         => ( /\ config'.activityType = storedState[1].activityType
              /\ TargetOf(config') = storedState[1].targetDurationMs
              /\ startTimestampRef' = storedState[1].startTimestamp
              /\ pausedAtRef' = storedState[1].pausedAt
              /\ accumulatedPausedMsRef' = storedState[1].accumulatedPausedMs
              /\ armingStartTimestampRef'
                   = storedState[1].armingStartTimestamp
              /\ warningTriggeredRef' = storedState[1].warningTriggered
              /\ stateData'.mute = storedState[1].mute )
      /\ ( /\ ResumeSession
           /\ session.recovered
           /\ storedState # <<>>
           /\ storedState[1].state = "paused"
           /\ stateData'.state = "running" )
         => intervalRef'[1].duration = storedState[1].targetDurationMs ]_vars

\* C10: a snapshot that is written, restored by a reload at the same instant
\* and taken again equals the first one in every field.
C10_RecoveryIdempotent ==
  [][ ( /\ IsRestart
        /\ snapshotFresh
        /\ storedState # <<>>
        /\ storedState[1].state # "idle" )
      => SnapshotNext = storedState[1] ]_vars

\* C11: a reload during Arming continues the arming window: the tick moves
\* the controller to Running once 3000 ms have elapsed since the instant
\* start() began the window, and a reload after the window has elapsed moves
\* it to Running at initialization.
C11_ArmingContinuesAfterReload ==
  [][ /\ ( /\ ArmingTick
           /\ session.recovered
           /\ stateData.state = "arming"
           /\ now - session.armingStartedAt >= ARMING_DURATION )
         => stateData'.state = "running"
      /\ ( /\ IsRestart
           /\ stateData.state = "arming"
           /\ now - session.armingStartedAt >= ARMING_DURATION )
         => stateData'.state = "running" ]_vars

\* C12: abort() called during Arming moves the controller to Aborted, commits
\* a Session Record with status aborted and clears the snapshot.
C12_AbortDuringArmingRecorded ==
  [][ ( /\ AbortSession
        /\ stateData.state = "arming" )
      => ( /\ stateData'.state = "aborted"
           /\ Commits
           /\ storedSessions'[1].status = "aborted"
           /\ storedState' = <<>> ) ]_vars

\* C13: reset() called while Arming, Running or Paused is a no-op: the state
\* tag, the timestamps, the scheduled ticks and the snapshot are unchanged.
C13_ResetOnlyFromTerminal ==
  [][ ( /\ resetSession
        /\ stateData.state \in {"arming", "running", "paused"} )
      => UNCHANGED <<stateData, startTimestampRef, pausedAtRef,
                     accumulatedPausedMsRef, armingStartTimestampRef,
                     timerVars, storedState>> ]_vars

\* C14: abort() called while Idle, Finished or Aborted is a no-op: the state
\* tag is unchanged, no Session Record is appended and no abort alert is sent.
C14_AbortIgnoredOutsideSession ==
  [][ ( /\ abortSession
        /\ stateData.state \in {"idle", "finished", "aborted"} )
      => ( /\ stateData'.state = stateData.state
           /\ storedSessions' = storedSessions
           /\ alerts' = alerts ) ]_vars

\* C15: start() outside Idle, pause() outside Running and resume() outside
\* Paused leave the state, the timestamps, the accumulated pause, the
\* scheduled ticks, the history and the snapshot unchanged and fire no alert.
C15_InvalidCallsChangeNothing ==
  [][ ( \/ startSession /\ stateData.state # "idle"
        \/ pauseSession /\ stateData.state # "running"
        \/ resumeSession /\ stateData.state # "paused" )
      => UNCHANGED <<stateData, startTimestampRef, pausedAtRef,
                     accumulatedPausedMsRef, armingStartTimestampRef,
                     warningTriggeredRef, sessionIdRef, timerVars, sessions,
                     storedSessions, storedState, alerts>> ]_vars

\* A pause() that returned early has been made in a session that is under way.
C15_Witness ==
  /\ Len(ignored) > 0
  /\ ignored[1] = "pause"
  /\ stateData.state \in {"arming", "paused"}

\* C16: configure() called while Arming, Running, Paused, Finished or Aborted
\* leaves the configuration unchanged.
C16_ConfigureOnlyWhenIdle ==
  [][ ( /\ Configure
        /\ stateData.state # "idle" )
      => config' = config ]_vars

\* C17: whenever an alert of any kind is sent to the Alert Sink, the mute flag
\* is false and audio is enabled at that moment.
C17_AlertsOnlyWhenAudible ==
  [][ ( \E k \in DOMAIN NoAlerts : alerts'[k] > alerts[k] )
      => ( ~stateData.mute /\ audioEnabled ) ]_vars

\* C18: whenever the controller is Idle, Finished or Aborted the snapshot
\* slot is empty.
C18_NoSnapshotOutsideSession ==
  stateData.state \in {"idle", "finished", "aborted"} => storedState = <<>>

\* C19: a malformed snapshot read at initialization (unparseable, an unknown
\* state tag, or a Running, Arming or Paused tag without its timestamps) is
\* discarded and the controller starts in Idle.
C19_MalformedSnapshotDiscarded ==
  [][ ( /\ IsRestart
        /\ storedState # <<>>
        /\ storedState[1] \in MalformedSnapshots )
      => stateData'.state = "idle" ]_vars

\* The in-memory controller state: state tag and display data, mute, the
\* timestamps, the accumulated pause and the warned flag
Memory ==
  <<stateData, startTimestampRef, pausedAtRef, accumulatedPausedMsRef,
    armingStartTimestampRef, warningTriggeredRef>>

\* A step of the operation Op in which localStorage threw, while the same
\* call with localStorage working does not lead to the memory m.
Disturbed(Op, m) ==
  /\ Op
  /\ Throws
  /\ ~ENABLED (Op /\ ~Throws /\ Memory' = m)

StateOf(kind) == IF kind = "arming" THEN "arming" ELSE "running"

\* C21: no orphaned timers.  In idle, paused, finished and aborted no
\* interval is scheduled; at any time at most one display interval (arming
\* or running) and at most one persistence interval are scheduled; and every
\* scheduled interval is the one the refs hold and belongs to the current
\* state, so that after pause, abort, reset or a finish no interval of the
\* previous state is left to change state, write a snapshot or fire an alert.
C21_NoOrphanedTimers ==
  /\ stateData.state \in {"idle", "paused", "finished", "aborted"}
       => scheduled = <<>>
  /\ Cardinality({i \in 1..Len(scheduled) : scheduled[i].kind # "persist"}) <= 1
  /\ Cardinality({i \in 1..Len(scheduled) : scheduled[i].kind = "persist"}) <= 1
  /\ \A i \in 1..Len(scheduled) :
        /\ stateData.state = StateOf(scheduled[i].kind)
        /\ IF scheduled[i].kind = "persist"
           THEN persistIntervalRef = <<scheduled[i].scope>>
           ELSE intervalRef = <<scheduled[i]>>

\* C21 witness: a session that had both intervals scheduled has been paused,
\* and the clock has moved on since.
C21_Witness ==
  /\ stateData.state = "paused"
  /\ Truthy(pausedAtRef)
  /\ now > pausedAtRef
  /\ scheduled = <<>>

\* C22: start() from idle enters arming and stamps the start of the arming
\* window; an arming tick that runs 3000 ms or more after that start moves
\* the controller to running; every step from arming to running happens no
\* earlier than 3000 ms after it and leaves a non-empty session id that was
\* not there before, startTimestamp = the time of the step,
\* accumulatedPausedMs = 0 and pausedAt cleared.
C22_ArmingThenRunning ==
  [][ /\ (StartSession /\ stateData.state = "idle")
         => /\ stateData'.state = "arming"
            /\ armingStartTimestampRef' = now
      /\ (/\ ArmingTick
          /\ stateData.state = "arming"
          /\ now - session.armingStartedAt >= 3000)
         => stateData'.state = "running"
      /\ (stateData.state = "arming" /\ stateData'.state = "running")
         => /\ now - session.armingStartedAt >= 3000
            /\ sessionIdRef' # NoId
            /\ sessionIdRef' # sessionIdRef
            /\ startTimestampRef' = now'
            /\ accumulatedPausedMsRef' = 0
            /\ pausedAtRef' = Null ]_vars

\* C23: a reload while paused leaves the controller paused with
\* startTimestamp, accumulatedPausedMs, pausedAt and warningTriggered equal to
\* the snapshot's values (which are those the controller had before the
\* reload) and no interval scheduled; and a session restored as paused stays
\* paused, with no interval scheduled, through every step that is not
\* resume() or abort().
C23_RestorePausedAsIs ==
  [][ /\ (IsRestart /\ stateData.state = "paused")
         => /\ storedState # <<>>
            /\ stateData'.state = "paused"
            /\ startTimestampRef' = storedState[1].startTimestamp
            /\ accumulatedPausedMsRef' = storedState[1].accumulatedPausedMs
            /\ pausedAtRef' = storedState[1].pausedAt
            /\ warningTriggeredRef' = storedState[1].warningTriggered
            /\ <<startTimestampRef', accumulatedPausedMsRef', pausedAtRef',
                 warningTriggeredRef'>>
               = <<startTimestampRef, accumulatedPausedMsRef, pausedAtRef,
                   warningTriggeredRef>>
            /\ scheduled' = <<>>
            /\ intervalRef' = <<>>
            /\ persistIntervalRef' = <<>>
      /\ (/\ session.recovered
          /\ stateData.state = "paused"
          /\ ~ResumeSession
          /\ ~AbortSession)
         => /\ stateData'.state = "paused"
            /\ scheduled' = <<>>
            /\ UNCHANGED <<startTimestampRef, accumulatedPausedMsRef,
                           pausedAtRef, warningTriggeredRef>> ]_vars

\* C23 witness: a session reloaded while paused is paused, with the pause
\* instant of the snapshot, at a later time.
C23_Witness ==
  /\ session.recovered
  /\ stateData.state = "paused"
  /\ Truthy(pausedAtRef)
  /\ sessionIdRef = NoId
  /\ now > pausedAtRef

\* C24: with a warning threshold of 0 configured, no warning alert fires and
\* the warning-active flag is never true.
C24_NoWarningAtThresholdZero ==
  config.warningThresholdMinutes = 0
    => alerts.warning = 0 /\ ~stateData.isWarning /\ ~warningTriggeredRef

\* accumulatedPausedMs as the controller holds it when a record is created
\* in this step: resume() adds the pause that ends before it finishes the
\* session, every other operation creates the record with the value as it is.
AccumulatedAtCommit ==
  IF stateData.state = "paused" /\ stateData'.state = "finished"
  THEN accumulatedPausedMsRef + (now - pausedAtRef)
  ELSE accumulatedPausedMsRef

\* C25: every Session Record created, finished or aborted, has
\* effectiveDurationMs = endAt - startAt - accumulatedPausedMs, with endAt the
\* time of creation, startAt the controller's startTimestamp and
\* accumulatedPausedMs the controller's value when the record is created.
C25_EffectiveDurationOfRecord ==
  [][ Commits
      => LET rec == storedSessions'[1]
         IN /\ rec.status \in {"finished", "aborted"}
            /\ rec.endAt = now
            /\ rec.startAt = startTimestampRef
            /\ rec.effectiveDurationMs
                 = rec.endAt - rec.startAt - AccumulatedAtCommit ]_vars

\* C25 witness: a finished record of a session that was paused for a while,
\* so that its effective duration is shorter than endAt - startAt.
C25_Witness ==
  /\ storedSessions # <<>>
  /\ storedSessions[1].status = "finished"
  /\ storedSessions[1].effectiveDurationMs > 0
  /\ storedSessions[1].effectiveDurationMs
       < storedSessions[1].endAt - storedSessions[1].startAt

\* The time a record was made, which is the order of the appends
MadeAt(rec) == rec.id[1]

\* C26: the store holds at most 100 records, newest first and with none
\* missing between the newest and the oldest kept; an append puts the new
\* record first, keeps the others as they were and in order, and drops only
\* the oldest, and only when 100 were stored; list(limit) returns the first
\* `limit` records in the same order and changes nothing; every record in
\* the store is the one just appended or one that was there, unchanged; and
\* a record leaves the store only by that eviction or by clear().
C26_StoreCappedNewestFirst ==
  [][ /\ Len(storedSessions') <= 100
      /\ \A i \in 1..(Len(storedSessions') - 1) :
           MadeAt(storedSessions'[i]) = MadeAt(storedSessions'[i + 1]) + 1
      /\ AppendRecord
         => /\ storedSessions'[1] = NewRecord
            /\ Len(storedSessions')
                 = IF Len(storedSessions) < 100
                   THEN Len(storedSessions) + 1 ELSE 100
            /\ \A i \in 2..Len(storedSessions') :
                 storedSessions'[i] = storedSessions[i - 1]
      /\ \A limit \in ListLimits :
           ListWith(limit)
           => /\ Len(sessions') = IF limit < Len(storedSessions)
                                  THEN limit ELSE Len(storedSessions)
              /\ \A i \in 1..Len(sessions') : sessions'[i] = storedSessions[i]
              /\ storedSessions' = storedSessions
      /\ \A j \in 1..Len(storedSessions') :
           \/ \E i \in 1..Len(storedSessions) :
                storedSessions'[j] = storedSessions[i]
           \/ AppendRecord /\ j = 1
      /\ \A i \in 1..Len(storedSessions) :
           (\A j \in 1..Len(storedSessions') :
              storedSessions'[j] # storedSessions[i])
           => \/ clearHistory /\ storedSessions' = <<>>
              \/ AppendRecord /\ i = 100 ]_vars

\* C26 witness: 100 records are stored, the first one appended is no longer
\* among them, and a list with a limit above 100 has returned them all.
C26_Witness ==
  /\ Len(storedSessions) = 100
  /\ MadeAt(storedSessions[100]) > StartTime
  /\ sessions = storedSessions

\* C27: while running, the remaining time a display tick publishes is the
\* session's target minus (now - startTimestamp - accumulatedPausedMs), with
\* now the clock at that tick, whatever ticks ran before.
C27_TickPublishesRemainingFromClock ==
  [][ (RunningTick /\ stateData.state = "running" /\ Truthy(startTimestampRef))
      => stateData'.remainingMs
           = session.target
               - (now - startTimestampRef - accumulatedPausedMsRef) ]_vars

\* The states of a session in progress
InSession == {"arming", "running", "paused"}

\* C28: from start to the end of a session accumulatedPausedMs never
\* decreases; it changes only in a resume() from paused, by exactly
\* now - pausedAt; ticks, pause(), toggleMute(), clock advances, reloads and
\* every other step leave it as it is.
C28_AccumulatedPauseOnlyGrowsAtResume ==
  [][ (stateData.state \in InSession /\ stateData'.state \in InSession)
      => /\ accumulatedPausedMsRef' >= accumulatedPausedMsRef
         /\ accumulatedPausedMsRef' # accumulatedPausedMsRef
            => /\ ResumeSession
               /\ stateData.state = "paused"
         /\ (ResumeSession /\ stateData.state = "paused")
            => accumulatedPausedMsRef'
                 = accumulatedPausedMsRef + (now - pausedAtRef)
         /\ (RunningTick \/ PersistTick \/ PauseSession \/ ToggleMute
               \/ Advance \/ IsRestart)
            => UNCHANGED accumulatedPausedMsRef ]_vars

\* C28 witness: a running session that has been paused and resumed, at a
\* later time than the resume.
C28_Witness ==
  /\ stateData.state = "running"
  /\ accumulatedPausedMsRef > 0
  /\ Truthy(startTimestampRef)
  /\ stateData.remainingMs > 0

\* C29: startTimestamp is null whenever the controller is idle, arming,
\* finished or aborted; it receives a value only in the step from arming to
\* running, and that value is the time of the step; once set it keeps that
\* value through ticks, pause(), resume(), toggleMute() and every other step
\* until the session ends or is reset, where it becomes null again.
C29_StartedAtSetOnce ==
  [][ /\ stateData'.state \in {"idle", "arming", "finished", "aborted"}
         => startTimestampRef' = Null
      /\ (stateData.state = "arming" /\ stateData'.state = "running")
         => startTimestampRef' = now'
      /\ startTimestampRef' # startTimestampRef
         => \/ /\ stateData.state = "arming"
               /\ stateData'.state = "running"
               /\ startTimestampRef = Null
            \/ /\ stateData.state \in {"running", "paused"}
               /\ stateData'.state \in {"idle", "finished", "aborted"}
               /\ startTimestampRef' = Null
      /\ (RunningTick \/ PersistTick \/ PauseSession \/ ToggleMute
            \/ (ResumeSession /\ stateData'.state = "running"))
         => UNCHANGED startTimestampRef ]_vars

\* C29 witness: a session that ran has been aborted, its record is stored
\* with the start time it had, and startTimestamp is null again.
C29_Witness ==
  /\ stateData.state = "aborted"
  /\ storedSessions # <<>>
  /\ storedSessions[1].startAt > StartTime
  /\ startTimestampRef = Null

\* C30: while running with a warning threshold > 0 and the warning not yet
\* triggered, a display tick that finds remaining <= the threshold sets
\* warningTriggered and isWarning (and fires the warning alert when the
\* session is neither muted nor without audio), also when remaining is
\* already <= 0 at that tick.
C30_FirstTickAtThresholdWarns ==
  [][ (/\ RunningTick
       /\ stateData.state = "running"
       /\ Truthy(startTimestampRef)
       /\ warningThresholdMs > 0
       /\ ~warningTriggeredRef
       /\ session.target - (now - startTimestampRef - accumulatedPausedMsRef)
            <= warningThresholdMs)
      => /\ warningTriggeredRef'
         /\ stateData'.isWarning
         /\ (~stateData.mute /\ audioEnabled)
            => alerts'.warning = alerts.warning + 1 ]_vars

(***************************************************************************)
(* C31..C38                                                                *)
(***************************************************************************)
\* C31: every finished Session Record carries the target of its session, and
\* its overdue amount is effectiveDurationMs - targetDurationMs when that is
\* positive and is absent when it is 0 or less.
C31_OverdueOfFinishedRecord ==
  [][ (Commits /\ storedSessions'[1].status = "finished")
      => LET rec == storedSessions'[1]
             over == rec.effectiveDurationMs - session.target
         IN /\ rec.targetDurationMs = session.target
            /\ rec.overdueMs = IF over > 0 THEN over ELSE Null ]_vars

\* C32: in finished the published remaining time is 0 and isWarning is
\* false; and the state tag leaves finished or aborted only in a reset(),
\* which makes it idle: ticks, start(), pause(), resume() and every other
\* operation called in a terminal state leave the tag and the remaining time
\* as they are.
C32_TerminalStatesStay ==
  [][ /\ stateData'.state = "finished"
         => stateData'.remainingMs = 0 /\ ~stateData'.isWarning
      /\ (stateData.state \in Terminal /\ stateData'.state # stateData.state)
         => resetSession /\ stateData'.state = "idle"
      /\ (/\ stateData.state \in Terminal
          /\ \/ ArmingTick \/ RunningTick \/ PersistTick
             \/ startSession \/ pauseSession \/ resumeSession)
         => UNCHANGED <<stateData, scheduled>> ]_vars

\* C32 witness: a session that ran past its target is finished, and a call
\* that does not apply has been made.
C32_Witness ==
  /\ stateData.state = "finished"
  /\ storedSessions # <<>>
  /\ storedSessions[1].overdueMs # Null
  /\ ignored # <<>>

\* C33: mute and audioEnabled are independent: toggleMute(), in any state
\* and whether or not audio is enabled, negates mute and leaves the rest of
\* the state data, the refs, the timers and audioEnabled as they are;
\* enableAudio() makes audioEnabled true and leaves the state data as it is;
\* no other step (reset(), state transitions, ticks) changes mute.
C33_MuteAndAudioIndependent ==
  [][ /\ toggleMute
         => /\ stateData' = [stateData EXCEPT !.mute = ~stateData.mute]
            /\ UNCHANGED <<audioEnabled, refVars, timerVars>>
      /\ enableAudio
         => audioEnabled' /\ UNCHANGED <<stateData, refVars, timerVars>>
      /\ ~toggleMute => stateData'.mute = stateData.mute ]_vars

\* C33 witness: mute is on while audio is not enabled, in a controller that
\* has started a session and has been reset.
C33_Witness ==
  /\ stateData.mute
  /\ ~audioEnabled
  /\ stateData.state = "idle"
  /\ numSessions > 0
  /\ session = NoSession

\* C34: whenever the snapshot store holds a snapshot, its mute flag is the
\* mute flag the controller publishes; this covers the snapshot toggleMute()
\* writes and the snapshots the persist tick writes after it.
C34_SnapshotMuteIsCurrent ==
  storedState # <<>> => storedState[1].mute = stateData.mute

\* C35: while a session is arming, running or paused, the snapshot in the
\* store carries the target duration and the activity type that were
\* configured when start() was called for the session, whichever step wrote
\* it and whenever the configuration was edited.
C35_SnapshotCarriesStartConfig ==
  (stateData.state \in {"arming", "running", "paused"} /\ storedState # <<>>)
    => /\ storedState[1].targetDurationMs = session.target
       /\ storedState[1].activityType = session.activityType

\* C36: in a session that no reload has interrupted, whose configuration is
\* therefore the one start() saw, a display tick that finds the warning not
\* yet triggered and publishes a remaining time > 0 triggers the warning
\* exactly when that remaining time is <= the configured warning threshold.
C36_TickAppliesThresholdOfStart ==
  [][ (/\ RunningTick
       /\ stateData.state = "running"
       /\ ~session.recovered
       /\ ~warningTriggeredRef
       /\ stateData'.remainingMs > 0)
      => (warningTriggeredRef' <=> stateData'.remainingMs <= warningThresholdMs) ]_vars

\* C37: while running or paused the published isWarning is true exactly
\* when warningTriggered is set, also after a reload that restored a snapshot
\* whose warningTriggered is true; in idle, finished and aborted it is false.
C37_IsWarningAgreesWithWarned ==
  /\ stateData.state \in {"running", "paused"}
       => (stateData.isWarning <=> warningTriggeredRef)
  /\ stateData.state \in {"idle", "finished", "aborted"}
       => ~stateData.isWarning

\* C38: the ids of the records in the store are pairwise distinct and there
\* are never more records than sessions started; a step that commits a record
\* gives it the id the controller holds, which is not null; and the id the
\* controller holds changes only in the step from arming to running, to the
\* id generated in that step, and at the end of the session, to null.
C38_OneRecordPerSession ==
  [][ /\ \A i, j \in 1..Len(storedSessions') :
           i # j => storedSessions'[i].id # storedSessions'[j].id
      /\ Len(storedSessions') <= numSessions'
      /\ Commits
         => /\ sessionIdRef # NoId
            /\ storedSessions'[1].id = sessionIdRef
            /\ \A i \in 2..Len(storedSessions') :
                 storedSessions'[i] = storedSessions[i - 1]
      /\ sessionIdRef' # sessionIdRef
         => \/ /\ stateData.state = "arming"
               /\ stateData'.state = "running"
               /\ \E r \in RandomSuffixes : sessionIdRef' = <<now', r>>
            \/ /\ stateData'.state \in {"idle", "finished", "aborted"}
               /\ sessionIdRef' = NoId
            \/ IsRestart /\ sessionIdRef' = NoId ]_vars

\* C38 witness: two sessions have each left a record, one finished and one
\* aborted.
C38_Witness ==
  /\ Len(storedSessions) = 2
  /\ storedSessions[1].status # storedSessions[2].status

====
